---- MODULE Spec2Model ----
(***************************************************************************)
(* The Streamlit research-agent page of main.py as a state machine.        *)
(*                                                                         *)
(* One browser session is modelled.  Streamlit executes main.py from top   *)
(* to bottom on every page load and on every widget event; the only point  *)
(* where a run is suspended is asyncio.run(Runner.run(...)), which blocks  *)
(* the script until the completion returns or raises.  The state is the    *)
(* value of every widget, the agent built at l.52-55, the awaited          *)
(* Runner.run call, and what the run has displayed.                        *)
(*                                                                         *)
(* Text is a sequence of one-character strings, so that slicing, strip()   *)
(* and f-string concatenation are computed rather than assumed.            *)
(***************************************************************************)
EXTENDS Integers, Sequences, FiniteSets, TLC

\* ---- bounds of the model ----
MaxLen == 2      \* longest text typed into a text widget
MaxPages == 2    \* most pages of an uploaded PDF

\* ---- program constant ----
MaxChars == 8000 \* the slice [:8000] of l.83

\* ---- text ----
Alphabet == {"a", " "}
Whitespace == {" ", "\n", "\t"}
Texts == UNION {[1..n -> Alphabet] : n \in 0..MaxLen}

RECURSIVE lstrip(_)
lstrip(s) == IF s # <<>> /\ Head(s) \in Whitespace THEN lstrip(Tail(s)) ELSE s

RECURSIVE rstrip(_)
rstrip(s) ==
    IF s # <<>> /\ s[Len(s)] \in Whitespace
    THEN rstrip(SubSeq(s, 1, Len(s) - 1))
    ELSE s

\* str.strip()
strip(s) == rstrip(lstrip(s))

\* ---- the credential (l.9-13) ----
\* os.getenv returns None or a string
None == [isNone |-> TRUE, str |-> <<>>]
Str(s) == [isNone |-> FALSE, str |-> s]
EnvValues == {None, Str(<<>>), Str(<<"k">>)}

\* a mistaken check: "api_key is None" lets the empty string through
Truthy_OnlyNone(v) == ~v.isNone

\* Python truthiness of "api_key" in "if not api_key"
Truthy(v) == ~v.isNone /\ v.str # <<>>

\* ---- widgets ----
\* options of st.radio (l.40); the first is the default
Styles == <<"Simple", "Explain Like I'm 5", "Technical">>
StyleSet == {Styles[i] : i \in 1..Len(Styles)}

\* options of st.selectbox (l.71-77); the first is the default
Tools == <<"None", "PDF Summarization", "Keyword Extraction",
           "APA Reference Generator", "Concept Explainer">>
ToolSet == {Tools[i] : i \in 1..Len(Tools)}

Buttons == {"Get Answer", "Summarize PDF", "Extract Keywords",
            "Generate APA Reference", "Explain Concept"}

\* a copy-paste slip: Technical carries the Simple instruction
instructions_Duplicated ==
    [s \in StyleSet |->
        IF s = "Explain Like I'm 5"
        THEN "Explain the answer in very simple, easy-to-understand terms, like to a 5-year-old."
        ELSE "Give a short, clear, and factual response for any academic or research question."]

\* the dict of l.45-49
instructions ==
    [s \in StyleSet |->
        CASE s = "Simple" ->
               "Give a short, clear, and factual response for any academic or research question."
          [] s = "Explain Like I'm 5" ->
               "Explain the answer in very simple, easy-to-understand terms, like to a 5-year-old."
          [] s = "Technical" ->
               "Provide a detailed and technical explanation with examples, references, or formulas if needed."]

\* an agent built once from the default style instead of the selected one
Agent_Stale(m) == [name |-> "Research Agent", instructions |-> instructions[Styles[1]]]

\* Agent(name=..., instructions=instructions[mode]) (l.52-55)
Agent(m) == [name |-> "Research Agent", instructions |-> instructions[m]]

NoAgent == [name |-> "", instructions |-> ""]

\* ---- the uploaded PDF (l.80-83) ----
PageKinds == {"blank", "p3000", "p5000", "p5001"}

Pattern(n, k, x, y) == [i \in 1..n |-> IF i % k = 0 THEN y ELSE x]

\* the text of the three kinds of page that have some
Page3000 == Pattern(3000, 7, "c", "d")
Page5000 == Pattern(5000, 11, "a", "b")
Page5001 == Pattern(5001, 13, "e", "f")

\* page.extract_text(): the text PyPDF2 finds on a page
extract_text(page) ==
    CASE page = "blank" -> <<>>
      [] page = "p3000" -> Page3000
      [] page = "p5000" -> Page5000
      [] page = "p5001" -> Page5001

NoFile == [uploaded |-> FALSE, pages |-> <<>>]
File(ps) == [uploaded |-> TRUE, pages |-> ps]
Files == {File(ps) : ps \in UNION {[1..n -> PageKinds] : n \in 0..MaxPages}}

RECURSIVE join(_)
\* "".join(list)
join(list) == IF list = <<>> THEN <<>> ELSE Head(list) \o join(Tail(list))

HasText(page) == extract_text(page) # <<>>

\* "".join([page.extract_text() for page in reader.pages if page.extract_text()])
PagesText(f) ==
    LET kept == SelectSeq(f.pages, HasText)
    IN  join([i \in 1..Len(kept) |-> extract_text(kept[i])])

\* an off-by-one slice
Truncate_OffByOne(s) == SubSeq(s, 1, IF Len(s) < MaxChars + 1 THEN Len(s) ELSE MaxChars + 1)

\* s[:8000]
Truncate(s) == SubSeq(s, 1, IF Len(s) < MaxChars THEN Len(s) ELSE MaxChars)

\* ---- the prompt templates (l.84, 93, 102, 111) ----
\* the literal text of each f-string before its "\n\n"
LeadIn(t) ==
    CASE t = "PDF Summarization" ->
         \* Summarize the following research paper:
         <<
           "S", "u", "m", "m", "a", "r", "i", "z", "e", " ", "t", "h",
           "e", " ", "f", "o", "l", "l", "o", "w", "i", "n", "g", " ",
           "r", "e", "s", "e", "a", "r", "c", "h", " ", "p", "a", "p",
           "e", "r", ":" >>
      [] t = "Keyword Extraction" ->
         \* Extract the most relevant keywords from this content:
         <<
           "E", "x", "t", "r", "a", "c", "t", " ", "t", "h", "e", " ",
           "m", "o", "s", "t", " ", "r", "e", "l", "e", "v", "a", "n",
           "t", " ", "k", "e", "y", "w", "o", "r", "d", "s", " ", "f",
           "r", "o", "m", " ", "t", "h", "i", "s", " ", "c", "o", "n",
           "t", "e", "n", "t", ":" >>
      [] t = "APA Reference Generator" ->
         \* Generate APA references from the following text:
         <<
           "G", "e", "n", "e", "r", "a", "t", "e", " ", "A", "P", "A",
           " ", "r", "e", "f", "e", "r", "e", "n", "c", "e", "s", " ",
           "f", "r", "o", "m", " ", "t", "h", "e", " ", "f", "o", "l",
           "l", "o", "w", "i", "n", "g", " ", "t", "e", "x", "t", ":" >>
      [] t = "Concept Explainer" ->
         \* Explain the following concept in simple academic terms:
         <<
           "E", "x", "p", "l", "a", "i", "n", " ", "t", "h", "e", " ",
           "f", "o", "l", "l", "o", "w", "i", "n", "g", " ", "c", "o",
           "n", "c", "e", "p", "t", " ", "i", "n", " ", "s", "i", "m",
           "p", "l", "e", " ", "a", "c", "a", "d", "e", "m", "i", "c",
           " ", "t", "e", "r", "m", "s", ":" >>

\* a template that trims the text it embeds
Template_Stripped(t, payload) == LeadIn(t) \o <<"\n", "\n">> \o strip(payload)

\* f"<lead-in>\n\n{payload}"
Template(t, payload) == LeadIn(t) \o <<"\n", "\n">> \o payload

\* a prompt that is trimmed before it is sent
AnswerInput_Stripped(q) == strip(q)

\* input=question (l.64)
AnswerInput(q) == q

\* ---- the guards of the button branches ----
\* st.button("Get Answer") and question.strip() (l.62)
AnswerGuard(btn, q) == btn = "Get Answer" /\ strip(q) # <<>>

\* the button of each tool branch (l.81, 92, 101, 110)
ToolButton(t) ==
    CASE t = "PDF Summarization" -> "Summarize PDF"
      [] t = "Keyword Extraction" -> "Extract Keywords"
      [] t = "APA Reference Generator" -> "Generate APA Reference"
      [] t = "Concept Explainer" -> "Explain Concept"
      [] OTHER -> "none"

\* the tool branches fire on their field alone, whatever was clicked
ToolGuard_NoButton(t, btn, f, c, r, k) ==
    CASE t = "PDF Summarization" -> f.uploaded
      [] t = "Keyword Extraction" -> c # <<>>
      [] t = "APA Reference Generator" -> r # <<>>
      [] t = "Concept Explainer" -> k # <<>>
      [] OTHER -> FALSE

\* the conditions of l.79-81, 90-92, 99-101, 108-110
ToolGuard(t, btn, f, c, r, k) ==
    CASE t = "PDF Summarization" -> f.uploaded /\ btn = "Summarize PDF"
      [] t = "Keyword Extraction" -> btn = "Extract Keywords" /\ c # <<>>
      [] t = "APA Reference Generator" -> btn = "Generate APA Reference" /\ r # <<>>
      [] t = "Concept Explainer" -> btn = "Explain Concept" /\ k # <<>>
      [] OTHER -> FALSE

\* the text each tool branch puts into its template
ToolPayload(t, f, c, r, k) ==
    CASE t = "PDF Summarization" -> Truncate(PagesText(f))
      [] t = "Keyword Extraction" -> c
      [] t = "APA Reference Generator" -> r
      [] t = "Concept Explainer" -> k

\* the label of st.success in each branch (l.65, 87, 96, 105, 114)
SuccessLabel(t) ==
    CASE t = "PDF Summarization" -> "Summary:"
      [] t = "Keyword Extraction" -> "Keywords:"
      [] t = "APA Reference Generator" -> "APA References:"
      [] t = "Concept Explainer" -> "Explanation:"
      [] OTHER -> "Response Ready"

\* what a run displays: st.error, st.success, st.markdown, st.write
Shown(w, label, text) == [widget |-> w, label |-> label, text |-> text]

\* ---- the remote completion ----
\* response.final_output of a completion that returns
Outputs == {<<"o">>}
\* what Runner.run raises when the endpoint or the network fails
Errors == {"UpstreamError"}

NoCall == [agent |-> NoAgent, input |-> <<>>]
Call(a, input) == [agent |-> a, input |-> input]

Awaiting == {"await_answer", "await_tool"}

\* ---- state ----
VARIABLES
    api_key,         \* os.getenv("GEMINI_API_KEY") (l.10)
    pc,              \* where the script is: boot, stopped, idle, await_answer, await_tool
    mode,            \* st.radio (l.40)
    question,        \* st.text_input (l.59)
    tool,            \* st.selectbox (l.71)
    pdf,             \* st.file_uploader (l.80)
    content,         \* st.text_area (l.91)
    reference_text,  \* st.text_area (l.100)
    concept,         \* st.text_input (l.109)
    button,          \* the button whose click started the current run, or "none"
    agent,           \* the Agent of l.52-55
    running,         \* the Runner.run call the script is blocked on
    inflight,        \* number of Runner.run calls started and not yet finished
    calls,           \* number of Runner.run calls made by the current run
    shown,           \* what the current run has displayed
    raised           \* the exception that ended the current run, or "none"

widgets == <<mode, question, tool, pdf, content, reference_text, concept>>
vars == <<api_key, pc, mode, question, tool, pdf, content, reference_text, concept,
          button, agent, running, inflight, calls, shown, raised>>

Init ==
    /\ api_key \in EnvValues
    /\ pc = "boot"
    /\ mode = Styles[1]
    /\ question = <<>>
    /\ tool = Tools[1]
    /\ pdf = NoFile
    /\ content = <<>>
    /\ reference_text = <<>>
    /\ concept = <<>>
    /\ button = "none"
    /\ agent = NoAgent
    /\ running = NoCall
    /\ inflight = 0
    /\ calls = 0
    /\ shown = <<>>
    /\ raised = "none"

\* ---- one run of the script ----
\* l.69-115: the tool section, reached with n calls made, sh displayed and i in flight
ToolSection(btn, t, f, c, r, k, a, n, sh, i) ==
    IF ToolGuard(t, btn, f, c, r, k)
    THEN /\ pc' = "await_tool"
         /\ running' = Call(a, Template(t, ToolPayload(t, f, c, r, k)))
         /\ inflight' = i + 1
         /\ calls' = n + 1
         /\ shown' = sh
    ELSE /\ pc' = "idle"
         /\ running' = NoCall
         /\ inflight' = i
         /\ calls' = n
         /\ shown' = sh

\* l.9-64: the script from its first line, with btn clicked and the widgets as given
Script(btn, m, q, t, f, c, r, k) ==
    /\ button' = btn
    /\ raised' = "none"
    /\ UNCHANGED api_key
    /\ IF ~Truthy(api_key)
       THEN \* st.error(...); st.stop()
            /\ pc' = "stopped"
            /\ shown' = <<Shown("error", "Please set GEMINI_API_KEY in your .env file.", <<>>)>>
            /\ calls' = 0
            /\ UNCHANGED <<widgets, agent, running, inflight>>
       ELSE /\ mode' = m
            /\ question' = q
            /\ tool' = t
            /\ pdf' = f
            /\ content' = c
            /\ reference_text' = r
            /\ concept' = k
            /\ agent' = Agent(m)
            /\ IF AnswerGuard(btn, q)
               THEN /\ pc' = "await_answer"
                    /\ running' = Call(Agent(m), AnswerInput(q))
                    /\ inflight' = inflight + 1
                    /\ calls' = 1
                    /\ shown' = <<>>
               ELSE ToolSection(btn, t, f, c, r, k, Agent(m), 0, <<>>, inflight)

\* ---- events ----
\* the page is opened or reloaded: a run with every widget at its default
Load ==
    /\ pc \in {"boot", "stopped", "idle"}
    /\ Script("none", Styles[1], <<>>, Tools[1], NoFile, <<>>, <<>>, <<>>)

\* the response style is changed in the sidebar (l.40)
SelectMode(m) ==
    /\ pc = "idle"
    /\ m # mode
    /\ Script("none", m, question, tool, pdf, content, reference_text, concept)

\* the question field is edited (l.59)
TypeQuestion(q) ==
    /\ pc = "idle"
    /\ q # question
    /\ Script("none", mode, q, tool, pdf, content, reference_text, concept)

\* another tool is chosen (l.71); the fields of a branch exist only while it is chosen
SelectTool(t) ==
    /\ pc = "idle"
    /\ t # tool
    /\ Script("none", mode, question, t, NoFile, <<>>, <<>>, <<>>)

\* a file is uploaded or removed (l.80)
UploadPdf(f) ==
    /\ pc = "idle"
    /\ tool = "PDF Summarization"
    /\ f # pdf
    /\ Script("none", mode, question, tool, f, content, reference_text, concept)

\* the keyword text area is edited (l.91)
TypeContent(c) ==
    /\ pc = "idle"
    /\ tool = "Keyword Extraction"
    /\ c # content
    /\ Script("none", mode, question, tool, pdf, c, reference_text, concept)

\* the reference text area is edited (l.100)
TypeReference(r) ==
    /\ pc = "idle"
    /\ tool = "APA Reference Generator"
    /\ r # reference_text
    /\ Script("none", mode, question, tool, pdf, content, r, concept)

\* the concept field is edited (l.109)
TypeConcept(k) ==
    /\ pc = "idle"
    /\ tool = "Concept Explainer"
    /\ k # concept
    /\ Script("none", mode, question, tool, pdf, content, reference_text, k)

\* a button that the last run put on the page is clicked
Click(btn) ==
    /\ pc = "idle"
    /\ \/ btn = "Get Answer"
       \/ /\ btn = ToolButton(tool)
          /\ tool = "PDF Summarization" => pdf.uploaded
    /\ Script(btn, mode, question, tool, pdf, content, reference_text, concept)

\* ---- the completion ends ----
\* a second attempt after a failure
AnswerRaises_Retry(err) ==
    /\ pc = "await_answer"
    /\ IF calls < 2
       THEN /\ calls' = calls + 1
            /\ UNCHANGED <<pc, running, inflight, shown, raised>>
       ELSE /\ pc' = "idle"
            /\ raised' = err
            /\ running' = NoCall
            /\ inflight' = inflight - 1
            /\ UNCHANGED <<calls, shown>>
    /\ UNCHANGED <<api_key, widgets, button, agent>>

\* l.64 raises: nothing catches it, the run ends there
AnswerRaises(err) ==
    /\ pc = "await_answer"
    /\ pc' = "idle"
    /\ raised' = err
    /\ running' = NoCall
    /\ inflight' = inflight - 1
    /\ UNCHANGED <<calls, shown>>
    /\ UNCHANGED <<api_key, widgets, button, agent>>

\* l.64 returns: l.65-67 display the result and the script goes on to the tool section
AnswerReturns(out) ==
    /\ pc = "await_answer"
    /\ ToolSection(button, tool, pdf, content, reference_text, concept, agent, calls,
                   shown \o << Shown("success", "Response Ready", <<>>),
                               Shown("markdown", "### Result", <<>>),
                               Shown("write", "", out) >>,
                   inflight - 1)
    /\ UNCHANGED <<api_key, widgets, button, agent, raised>>

\* l.86, 95, 104 or 113 raises
ToolRaises(err) ==
    /\ pc = "await_tool"
    /\ pc' = "idle"
    /\ raised' = err
    /\ running' = NoCall
    /\ inflight' = inflight - 1
    /\ UNCHANGED <<calls, shown>>
    /\ UNCHANGED <<api_key, widgets, button, agent>>

\* l.86, 95, 104 or 113 returns: the branch displays the result and the script ends
ToolReturns(out) ==
    /\ pc = "await_tool"
    /\ pc' = "idle"
    /\ running' = NoCall
    /\ inflight' = inflight - 1
    /\ shown' = shown \o << Shown("success", SuccessLabel(tool), <<>>),
                            Shown("write", "", out) >>
    /\ UNCHANGED <<calls, raised>>
    /\ UNCHANGED <<api_key, widgets, button, agent>>

Next ==
    \/ Load
    \/ \E m \in StyleSet : SelectMode(m)
    \/ \E q \in Texts : TypeQuestion(q)
    \/ \E t \in ToolSet : SelectTool(t)
    \/ \E f \in Files \cup {NoFile} : UploadPdf(f)
    \/ \E c \in Texts : TypeContent(c)
    \/ \E r \in Texts : TypeReference(r)
    \/ \E k \in Texts : TypeConcept(k)
    \/ \E btn \in Buttons : Click(btn)
    \/ \E out \in Outputs : AnswerReturns(out)
    \/ \E err \in Errors : AnswerRaises(err)
    \/ \E out \in Outputs : ToolReturns(out)
    \/ \E err \in Errors : ToolRaises(err)

Spec == Init /\ [][Next]_vars

\* ---- properties ----
TextTools == {"Keyword Extraction", "APA Reference Generator", "Concept Explainer"}

\* the field of the chosen text tool
TextField ==
    CASE tool = "Keyword Extraction" -> content
      [] tool = "APA Reference Generator" -> reference_text
      [] tool = "Concept Explainer" -> concept
      [] OTHER -> <<>>

\* the run has produced a result
ResultShown == \E i \in 1..Len(shown) : shown[i].widget \in {"success", "markdown", "write"}

\* C1: with the credential absent or empty the program never gets past its
\* initialization: no widget takes a value, no agent is built, no button is
\* clicked and Runner.run is never called.
C1_MissingCredentialHalts ==
    (api_key.isNone \/ api_key.str = <<>>) =>
        /\ pc \in {"boot", "stopped"}
        /\ calls = 0 /\ inflight = 0 /\ running = NoCall
        /\ agent = NoAgent
        /\ button = "none"
        /\ widgets = <<Styles[1], <<>>, Tools[1], NoFile, <<>>, <<>>, <<>>>>
        /\ ~ResultShown

C1_Witness == pc = "stopped" /\ ~api_key.isNone /\ api_key.str = <<>>

\* C2: a text tool whose button is pressed while its field is empty or holds
\* only whitespace does not call the agent and produces no result.
C2_BlankFieldIsNoOp ==
    (tool \in TextTools /\ button = ToolButton(tool) /\ strip(TextField) = <<>>) =>
        /\ pc \notin Awaiting
        /\ calls = 0
        /\ ~ResultShown

\* C3: a PDF none of whose pages has text does not call the agent and
\* produces no summary.
C3_EmptyPdfIsNoOp ==
    (tool = "PDF Summarization" /\ button = "Summarize PDF" /\ pdf.uploaded
        /\ \A i \in 1..Len(pdf.pages) : extract_text(pdf.pages[i]) = <<>>) =>
        /\ pc \notin Awaiting
        /\ calls = 0
        /\ ~ResultShown

\* C4: the text put into the summarization template is the first 8000
\* characters of the concatenated page text when that is longer than 8000
\* characters and the whole text otherwise; it is never longer than 8000.
C4_PdfTextTruncated ==
    (pc = "await_tool" /\ tool = "PDF Summarization") =>
        LET full == PagesText(pdf)
            n == Len(LeadIn(tool)) + 2
            payload == SubSeq(running.input, n + 1, Len(running.input))
        IN  /\ Len(payload) <= 8000
            /\ Len(full) > 8000 => payload = SubSeq(full, 1, 8000)
            /\ Len(full) <= 8000 => payload = full

C4_Witness ==
    /\ pc = "await_tool" /\ tool = "PDF Summarization"
    /\ Len(PagesText(pdf)) > 8000

\* C5: the question is sent to the agent exactly as typed, with no template
\* and no trimming; a template is sent only by the button of a chosen tool.
C5_QuestionSentVerbatim ==
    /\ pc = "await_answer" =>
          /\ button = "Get Answer"
          /\ strip(question) # <<>>
          /\ running.input = question
    /\ pc = "await_tool" =>
          /\ tool # "None"
          /\ button = ToolButton(tool)

C5_Witness ==
    /\ pc = "await_answer"
    /\ strip(question) # question
    /\ tool # "None"

\* C6: a completion that fails ends the run with its error: one call was
\* made, none is left running, and no success message or result is shown.
C6_FailurePropagates ==
    raised # "none" =>
        /\ raised \in Errors
        /\ pc = "idle"
        /\ calls = 1
        /\ inflight = 0
        /\ running = NoCall
        /\ ~ResultShown

C6_Witness == raised = "UpstreamError" /\ button = "Get Answer"

\* C7: the agent in use always carries the instructions of the style that is
\* selected now, and every call is made with that agent.
C7_AgentFollowsStyle ==
    /\ pc \in {"idle"} \cup Awaiting => agent.instructions = instructions[mode]
    /\ pc \in Awaiting =>
          /\ running.agent = agent
          /\ running.agent.instructions = instructions[mode]

C7_Witness == pc \in Awaiting /\ mode = "Technical" /\ mode # Styles[1]

\* a step taken while a call is awaited ends the run and touches no widget
EndsTheRun ==
    pc \in Awaiting =>
        /\ pc' = "idle"
        /\ inflight' = 0
        /\ button' = button
        /\ widgets' = widgets

C9_TemplateShape ==
    pc = "await_tool" =>
        LET payload == ToolPayload(tool, pdf, content, reference_text, concept)
            input == running.input
            n == Len(LeadIn(tool))
        IN  payload # <<>> =>
              /\ Len(input) = n + 2 + Len(payload)
              /\ SubSeq(input, 1, n) = LeadIn(tool)
              /\ input[n + 1] = "\n"
              /\ input[n + 2] = "\n"
              /\ SubSeq(input, n + 3, Len(input)) = payload

C9_Witness ==
    /\ pc = "await_tool"
    /\ tool = "Keyword Extraction"
    /\ content # <<>> /\ strip(content) # content

\* C10: every style has an instruction, it is not empty, and no other style
\* has the same one.
C10_InstructionsDistinct ==
    pc = "idle" =>
        /\ mode \in DOMAIN instructions
        /\ agent.instructions # ""
        /\ \A s \in StyleSet \ {mode} : instructions[s] # agent.instructions

C10_Witness == pc = "idle" /\ mode = "Technical"

====
